---- MODULE Spec2Model ----
(***************************************************************************)
(* Model of the greyhound session addon (src/src/session/bindings.cpp) and *)
(* of the entwine read query (read-queries/entwine.cpp).                   *)
(*                                                                         *)
(* One control thread (the node event loop) runs the binding entry points  *)
(* create / destroy / read and every callback delivered to the caller; the *)
(* libuv thread pool runs the work callbacks handed to uv_queue_work.      *)
(* Session::initialize, ReadCommand and BufferPool are declared in headers *)
(* that are not part of the examined sources; their behaviour is taken     *)
(* from the design document (sections 4.1, 4.2, 4.4 and 4.6).              *)
(***************************************************************************)
EXTENDS Integers, Sequences, FiniteSets, TLC

\* ------------------------------------------------------------------ bounds
NumBindings == 2        \* Session objects constructed by the caller
MaxCreates == 2         \* create invocations over a run
MaxReads == 2           \* read invocations over a run
MaxPoints == 3          \* longest resolved id sequence
MaxBufCap == 2          \* largest buffer capacity, in points
NumThreads == 2         \* libuv worker threads
numBuffers == 1         \* bindings.cpp:46 sets 512; scaled down
CacheCapacity == 1      \* readers the cache keeps (cacheSize of global)
MaxInfos == 2           \* info invocations over a run
MaxGlobals == 2         \* global invocations over a run
NumConfigs == 2         \* distinct (paths, arbiter) arguments of global
MaxHierarchies == 2     \* hierarchy invocations over a run

\* -------------------------------------------------------------- constants
BadRequest == 400
NotFound == 404
InternalError == 500

Bindings == 1..NumBindings
Creates == 1..MaxCreates
Cmds == 1..MaxReads
Buffers == 1..numBuffers
Configs == 1..NumConfigs
Hiers == 1..MaxHierarchies

\* Dataset names a caller may pass: two that can be opened from `paths`,
\* one that cannot be located.
Names == {"scan1", "scan2", "nope"}
Locatable == {"scan1", "scan2"}
NoName == "none"

VARIABLES
    m_session,    \* Bindings::m_session is non-null
    sessRefs,     \* use count of each shared_ptr<Session>
    sessReader,   \* the reader a Session is bound to: [name, gen] or NoReader
    cache,        \* name -> [state, gen, refs]: the shared reader cache
    lru,          \* unreferenced cached readers, least recently released first
    builds,       \* name -> number of DatasetReader constructions
    evictions,    \* name -> number of readers evicted and destroyed
    createData,   \* create invocation -> [pc, session, name, status, cbs]
    readCommand,  \* read invocation -> the ReadCommand and its position
    delivered,    \* read invocation -> callbacks delivered to the caller
    bufferPool,   \* free buffers of the shared BufferPool
    unacked,      \* buffers delivered to a consumer and not yet acknowledged
    bufCap,       \* capacity of one pooled buffer, in points
    crashed,      \* the process dereferenced a null Session and died
    infoCalls,    \* number of info invocations made
    infoResult,   \* [session, out]: what the last info invocation returned
    stageFactory, \* the file-level stageFactory is set
    paths,        \* the file-level paths: 0 while unset
    cacheObj,     \* number of Cache objects the file-level cache was set to
    outerScope,   \* the arbiter of the file-level outerScope: 0 while unset
    thrown,       \* the exception the last global invocation left by
    globalCalls,  \* number of global invocations made
    hierarchyCommand  \* hierarchy invocation -> the command and its position

infoVars == <<infoCalls, infoResult>>
globalVars == <<stageFactory, paths, cacheObj, outerScope, thrown, globalCalls>>
hierarchyVars == <<hierarchyCommand>>
\* State of the entry points other than create, destroy and read.
otherVars == <<infoVars, globalVars, hierarchyVars>>

vars == <<m_session, sessRefs, sessReader, cache, lru, builds, evictions,
          createData,
          readCommand, delivered, bufferPool, unacked, bufCap, crashed,
          otherVars>>

NoReader == [name |-> NoName, gen |-> 0]

NoCreate == [pc |-> "none", session |-> 0, null |-> FALSE, name |-> NoName,
             status |-> 0, why |-> "", cbs |-> 0]

NoCommand == [pc |-> "none", session |-> 0, null |-> FALSE, status |-> 0,
              m_ids |-> <<>>, index |-> 0, buffer |-> 0, data |-> <<>>,
              pts |-> <<>>, entered |-> FALSE, raised |-> ""]

NotAString == "notAString"    \* a name argument that is not a string

\* ------------------------------------------------------------ sequences
RECURSIVE Without(_, _)
Without(s, x) ==
    IF s = <<>> THEN <<>>
    ELSE IF Head(s) = x THEN Without(Tail(s), x)
    ELSE <<Head(s)>> \o Without(Tail(s), x)

\* ------------------------------------------------------- worker threads
\* Positions at which an invocation occupies a thread of the libuv pool.
CreateOnThread == {"building", "waiting"}
ReadOnThread == {"initCb", "initDone", "acquire", "dataCb", "awaitAck",
                 "acked"}

Busy ==
    Cardinality({k \in Creates : createData[k].pc \in CreateOnThread})
    + Cardinality({c \in Cmds : readCommand[c].pc \in ReadOnThread})

ThreadFree == Busy < NumThreads

\* ---------------------------------------------------------------- cache
Cached(c) == {n \in Names : c[n].state # "absent"}

\* Capacity policy: while the cache holds more readers than its capacity,
\* the least recently released unreferenced reader is destroyed.
Evict_ignoresCount(c, l, ev) ==
    IF Cardinality(Cached(c)) > CacheCapacity
    THEN LET n == CHOOSE m \in Cached(c) : TRUE
         IN  [cache |-> [c EXCEPT ![n] = [state |-> "absent", gen |-> 0,
                                          refs |-> 0]],
              lru |-> Without(l, n),
              evictions |-> [ev EXCEPT ![n] = @ + 1]]
    ELSE [cache |-> c, lru |-> l, evictions |-> ev]

RECURSIVE Evict(_, _, _)
Evict(c, l, ev) ==
    IF Cardinality(Cached(c)) > CacheCapacity /\ l # <<>>
    THEN Evict([c EXCEPT ![Head(l)] = [state |-> "absent", gen |-> 0, refs |-> 0]],
               Tail(l),
               [ev EXCEPT ![Head(l)] = @ + 1])
    ELSE [cache |-> c, lru |-> l, evictions |-> ev]

SetCache(r) ==
    /\ cache' = r.cache
    /\ lru' = r.lru
    /\ evictions' = r.evictions

\* One reference to reader `n` is released.
Released(c, l, n) ==
    [cache |-> [c EXCEPT ![n].refs = @ - 1],
     lru |-> IF c[n].refs = 1 THEN Append(l, n) ELSE l]

ReleaseReader(n) ==
    LET r == Released(cache, lru, n)
    IN  SetCache(Evict(r.cache, r.lru, evictions))

\* The state in which get_or_create finds the entry of `name`.
Lookup_noInFlight(name) ==
    IF cache[name].state = "building" THEN "absent" ELSE cache[name].state

Lookup(name) == cache[name].state

\* ------------------------------------------------------------- sessions
\* One owner of the shared_ptr<Session> of binding b lets go, leaving
\* `left` owners; the last one destroys the Session, which releases its
\* reader.
DropSession(b, left) ==
    /\ sessRefs' = [sessRefs EXCEPT ![b] = left]
    /\ IF left = 0 /\ sessReader[b] # NoReader
       THEN /\ sessReader' = [sessReader EXCEPT ![b] = NoReader]
            /\ ReleaseReader(sessReader[b].name)
       ELSE UNCHANGED <<sessReader, cache, lru, evictions>>

\* m_session.reset(): the use count the Session is left with.
ResetLeaves_destroysSession(refs) == 0

ResetLeaves(refs) == refs - 1

\* Session::initialize finds the Session of binding b bound to a reader.
Bound_never(b) == FALSE

Bound(b) == sessReader[b] # NoReader

\* The Session takes a reference to reader `n` that is already counted in
\* the cache entry (by the build or by the wait for it), or gives it back
\* when the Session has been bound in the meantime.
FinishBind(k, c, l) ==
    LET d == createData[k]
        b == d.session
    IN  IF ~Bound(b)
        THEN /\ sessReader' = [sessReader EXCEPT
                    ![b] = [name |-> d.name, gen |-> c[d.name].gen]]
             /\ cache' = c
             /\ lru' = l
             /\ UNCHANGED evictions
             /\ createData' = [createData EXCEPT ![k].pc = "workDone"]
        ELSE /\ UNCHANGED sessReader
             /\ LET r == Released(c, l, d.name)
                IN  SetCache(Evict(r.cache, r.lru, evictions))
             /\ createData' = [createData EXCEPT ![k].pc = "workDone",
                    ![k].status = InternalError, ![k].why = "AlreadyBound"]

\* ----------------------------------------------------------------- Init
BufferPoolInit_oneMore == 1..(numBuffers + 1)

BufferPoolInit == 1..numBuffers

NoInfo == [session |-> 0, out |-> "none"]

NoHierarchy ==
    [pc |-> "none", session |-> 0, null |-> FALSE, status |-> 0,
     result |-> "", cbs |-> 0, err |-> 0, arg |-> ""]

InitInfo ==
    /\ infoCalls = 0
    /\ infoResult = NoInfo

InitHierarchy == hierarchyCommand = [h \in Hiers |-> NoHierarchy]

\* Sessions are constructed from *stageFactory (Bindings::Bindings), that
\* is after one global call has run to its end.
InitOther ==
    /\ InitInfo
    /\ InitHierarchy
    /\ stageFactory = TRUE
    /\ paths = 1
    /\ cacheObj = 1
    /\ outerScope = 1
    /\ thrown = ""
    /\ globalCalls = 1

InitSessions ==
    /\ m_session = [b \in Bindings |-> TRUE]
    /\ sessRefs = [b \in Bindings |-> 1]
    /\ sessReader = [b \in Bindings |-> NoReader]
    /\ cache = [n \in Names |-> [state |-> "absent", gen |-> 0, refs |-> 0]]
    /\ lru = <<>>
    /\ builds = [n \in Names |-> 0]
    /\ evictions = [n \in Names |-> 0]
    /\ createData = [k \in Creates |-> NoCreate]
    /\ readCommand = [c \in Cmds |-> NoCommand]
    /\ delivered = [c \in Cmds |-> <<>>]
    /\ bufferPool = BufferPoolInit
    /\ unacked = {}
    /\ bufCap \in 1..MaxBufCap
    /\ crashed = FALSE

Init == InitOther /\ InitSessions

readVars == <<readCommand, delivered, bufferPool, unacked, bufCap>>
cacheVars == <<cache, lru, builds, evictions>>

\* --------------------------------------------------------------- create
\* Bindings::create on the control thread: validates the name, answers a
\* bad one at once, otherwise queues the work with a copy of m_session.
create(b, k, nameArg) ==
    /\ ~crashed
    /\ createData[k].pc = "none"
    /\ \A j \in Creates : j < k => createData[j].pc # "none"
    /\ IF nameArg = NotAString
       THEN /\ createData' = [createData EXCEPT ![k] =
                    [pc |-> "done", session |-> b, null |-> FALSE,
                     name |-> NoName, status |-> BadRequest, why |-> "",
                     cbs |-> 1]]
            /\ UNCHANGED sessRefs
       ELSE /\ createData' = [createData EXCEPT ![k] =
                    [pc |-> "queued", session |-> b, null |-> ~m_session[b],
                     name |-> nameArg, status |-> 0, why |-> "", cbs |-> 0]]
            /\ sessRefs' = [sessRefs EXCEPT
                    ![b] = IF m_session[b] THEN @ + 1 ELSE @]
    /\ UNCHANGED <<m_session, sessReader, cacheVars, readVars, crashed, otherVars>>

\* The status a create is left with when initialize returned false.
OnInitializeFalse_kept(st) == st

OnInitializeFalse(st) == NotFound

\* The work callback of create: session->initialize(name, paths,
\* outerScope, cache); a false result becomes the 404 status.
createWork(k) ==
    /\ ~crashed
    /\ createData[k].pc = "queued"
    /\ ThreadFree
    /\ LET d == createData[k]
           b == d.session
       IN  IF d.null
           THEN /\ crashed' = TRUE
                /\ UNCHANGED <<createData, sessReader, cacheVars>>
           ELSE /\ UNCHANGED crashed
                /\ IF Bound(b)
                   THEN /\ createData' = [createData EXCEPT
                                ![k].pc = "workDone",
                                ![k].status = InternalError,
                                ![k].why = "AlreadyBound"]
                        /\ UNCHANGED <<sessReader, cacheVars>>
                   ELSE IF d.name \notin Locatable
                   THEN /\ createData' = [createData EXCEPT
                                ![k].pc = "workDone",
                                ![k].status = OnInitializeFalse(@)]
                        /\ UNCHANGED <<sessReader, cacheVars>>
                   ELSE IF Lookup(d.name) = "open"
                   THEN /\ FinishBind(k, [cache EXCEPT ![d.name].refs = @ + 1],
                                      Without(lru, d.name))
                        /\ UNCHANGED builds
                   ELSE IF Lookup(d.name) = "building"
                   THEN /\ cache' = [cache EXCEPT ![d.name].refs = @ + 1]
                        /\ createData' = [createData EXCEPT ![k].pc = "waiting"]
                        /\ UNCHANGED <<sessReader, lru, builds, evictions>>
                   ELSE /\ builds' = [builds EXCEPT ![d.name] = @ + 1]
                        /\ SetCache(Evict(
                              [cache EXCEPT ![d.name] =
                                  [state |-> "building", gen |-> 0,
                                   refs |-> @.refs + 1]],
                              lru, evictions))
                        /\ createData' = [createData EXCEPT ![k].pc = "building"]
                        /\ UNCHANGED sessReader
    /\ UNCHANGED <<m_session, sessRefs, readVars, otherVars>>

\* The build started by createWork completes: the reader is open.
createBuilt(k) ==
    /\ ~crashed
    /\ createData[k].pc = "building"
    /\ LET n == createData[k].name
       IN  FinishBind(k, [cache EXCEPT ![n].state = "open",
                                       ![n].gen = builds[n]], lru)
    /\ UNCHANGED <<m_session, sessRefs, builds, readVars, crashed, otherVars>>

\* A create that waited for the build in flight receives its reader.
createWake(k) ==
    /\ ~crashed
    /\ createData[k].pc = "waiting"
    /\ cache[createData[k].name].state = "open"
    /\ FinishBind(k, cache, lru)
    /\ UNCHANGED <<m_session, sessRefs, builds, readVars, crashed, otherVars>>

\* The after-work callback of create on the control thread: calls the
\* callback with the status, then deletes the CreateData.
createAfterWork(k) ==
    /\ ~crashed
    /\ createData[k].pc = "workDone"
    /\ createData' = [createData EXCEPT ![k].pc = "done", ![k].cbs = @ + 1]
    /\ DropSession(createData[k].session, sessRefs[createData[k].session] - 1)
    /\ UNCHANGED <<m_session, builds, readVars, crashed, otherVars>>

\* -------------------------------------------------------------- destroy
\* Bindings::destroy: obj->m_session.reset().
destroy(b) ==
    /\ ~crashed
    /\ m_session[b]
    /\ m_session' = [m_session EXCEPT ![b] = FALSE]
    /\ DropSession(b, ResetLeaves(sessRefs[b]))
    /\ UNCHANGED <<builds, createData, readVars, crashed, otherVars>>


\* ------------------------------------------------------ entwine read query
\* Reader::getPointData(id, schema): the serialized point, two bytes here.
getPointData(id) == <<id, id + 16>>

\* EntwineReadQuery::numPoints
numPoints_plusOne(ids) == Len(ids) + 1

numPoints(ids) == Len(ids)

\* EntwineReadQuery::eof, with index() counted from 0
eof_never(i, ids) == i > numPoints(ids)

eof(i, ids) == i = numPoints(ids)

\* m_ids[index()]
PointAt_reversed(ids, i) == ids[Len(ids) - i]

PointAt(ids, i) == ids[i + 1]

\* EntwineReadQuery::readPoint: the bytes copied to `pos`
readPoint_short(ids, i) == SubSeq(getPointData(PointAt(ids, i)), 1, 1)

readPoint(ids, i) == getPointData(PointAt(ids, i))

\* The id sequences a query can resolve to: ascending and descending runs.
Asc(n) == [i \in 1..n |-> i]
Desc(n) == [i \in 1..n |-> n + 1 - i]
ResultSets == {Asc(n) : n \in 0..MaxPoints} \cup {Desc(n) : n \in 0..MaxPoints}

\* ReadQuery::read(buffer): fills the buffer with as many points as fit.
RECURSIVE FillData(_, _, _)
FillData(ids, i, room) ==
    IF eof(i, ids) \/ room = 0 THEN <<>>
    ELSE readPoint(ids, i) \o FillData(ids, i + 1, room - 1)

RECURSIVE FillPts(_, _, _)
FillPts(ids, i, room) ==
    IF eof(i, ids) \/ room = 0 THEN <<>>
    ELSE <<PointAt(ids, i)>> \o FillPts(ids, i + 1, room - 1)

RECURSIVE FillEnd(_, _, _)
FillEnd(ids, i, room) ==
    IF eof(i, ids) \/ room = 0 THEN i ELSE FillEnd(ids, i + 1, room - 1)

\* ----------------------------------------------------------------- read
InitOutcomes == {"ok", "InvalidQuery", "WrongQueryType", "exception", "unknown"}

\* The status the work callback sets for what init() raised.
InitStatus(o) ==
    CASE o = "ok" -> 0
      [] o = "InvalidQuery" -> BadRequest
      [] o = "WrongQueryType" -> BadRequest
      [] o = "exception" -> BadRequest
      [] o = "unknown" -> InternalError

\* "if (!readCommand->status.ok()) return;" after the init callback
AfterInit_noCheck(st) == "read"

AfterInit(st) == IF st = 0 THEN "read" ELSE "return"

\* What the caller receives: the init callback carries the status and the
\* total point count, a data callback a filled buffer and the done flag.
\* `live` notes whether the caller still had its Session when the chunk
\* arrived.
InitCb(st, n) ==
    [t |-> "init", status |-> st, total |-> n, pts |-> <<>>, bytes |-> <<>>,
     done |-> FALSE]

DataCb(st, ids, bs, fin, own) ==
    [t |-> "data", status |-> st, total |-> 0, pts |-> ids, bytes |-> bs,
     done |-> fin, live |-> own]

\* Bindings::read on the control thread.  argsOk: errMsg stayed empty;
\* made: ReadCommand::create returned a command instead of throwing.
read(b, c, argsOk, made) ==
    /\ ~crashed
    /\ readCommand[c].pc = "none"
    /\ \A j \in Cmds : j < c => readCommand[j].pc # "none"
    /\ IF ~argsOk
       THEN /\ readCommand' = [readCommand EXCEPT ![c].pc = "rejected",
                    ![c].session = b, ![c].status = BadRequest]
            /\ delivered' = [delivered EXCEPT ![c] =
                    <<InitCb(BadRequest, 0)>>]
            /\ UNCHANGED sessRefs
       ELSE IF ~made
       THEN /\ readCommand' = [readCommand EXCEPT ![c].pc = "createFailed",
                    ![c].session = b]
            /\ UNCHANGED <<delivered, sessRefs>>
       ELSE /\ readCommand' = [readCommand EXCEPT ![c].pc = "queued",
                    ![c].session = b, ![c].null = ~m_session[b]]
            /\ sessRefs' = [sessRefs EXCEPT
                    ![b] = IF m_session[b] THEN @ + 1 ELSE @]
            /\ UNCHANGED delivered
    /\ UNCHANGED <<m_session, sessReader, cacheVars, createData, bufferPool,
                   unacked, bufCap, crashed, otherVars>>

\* The work callback up to doCb(initAsync()): init() with its exception
\* mapping, then the init callback is posted to the control thread.
readWork(c, o, ids) ==
    /\ ~crashed
    /\ readCommand[c].pc = "queued"
    /\ ThreadFree
    /\ IF readCommand[c].null
       THEN /\ crashed' = TRUE
            /\ UNCHANGED readCommand
       ELSE /\ sessReader[readCommand[c].session] = NoReader => o # "ok"
            /\ o # "ok" => ids = <<>>
            /\ readCommand' = [readCommand EXCEPT ![c].pc = "initCb",
                    ![c].status = InitStatus(o), ![c].m_ids = ids,
                    ![c].raised = o]
            /\ UNCHANGED crashed
    /\ UNCHANGED <<m_session, sessRefs, sessReader, cacheVars, createData,
                   delivered, bufferPool, unacked, bufCap, otherVars>>

\* The control thread delivers the init callback: status and point count.
deliverInit(c) ==
    /\ ~crashed
    /\ readCommand[c].pc = "initCb"
    /\ delivered' = [delivered EXCEPT ![c] = Append(@,
            InitCb(readCommand[c].status, numPoints(readCommand[c].m_ids)))]
    /\ readCommand' = [readCommand EXCEPT ![c].pc = "initDone"]
    /\ UNCHANGED <<m_session, sessRefs, sessReader, cacheVars, createData,
                   bufferPool, unacked, bufCap, crashed, otherVars>>

\* doCb returned: the worker stops on a bad status, otherwise enters
\* readCommand->read(), which is over at once for an empty result.
readStart(c) ==
    /\ ~crashed
    /\ readCommand[c].pc = "initDone"
    /\ LET r == readCommand[c]
       IN  readCommand' = [readCommand EXCEPT ![c] =
               IF AfterInit(r.status) = "return"
               THEN [r EXCEPT !.pc = "workDone"]
               ELSE [r EXCEPT !.entered = TRUE,
                              !.pc = IF eof(r.index, r.m_ids) THEN "workDone"
                                     ELSE "acquire"]]
    /\ UNCHANGED <<m_session, sessRefs, sessReader, cacheVars, createData,
                   delivered, bufferPool, unacked, bufCap, crashed, otherVars>>

\* The position of a streaming command at which its buffer goes back to
\* the pool: after the consumer acknowledged the delivery.
ReleaseAt_delivery == "awaitAck"

ReleaseAt_never == "never"

ReleaseAt == "acked"

\* One round of readCommand->read(): a buffer is acquired from the pool
\* (the worker waits while none is free) and filled; a failure while
\* decoding leaves read() by an exception, which the work callback turns
\* into status 500.
readChunk(c, raises) ==
    /\ ~crashed
    /\ readCommand[c].pc = "acquire"
    /\ \E buf \in bufferPool :
          /\ bufferPool' = bufferPool \ {buf}
          /\ LET r == readCommand[c]
             IN  readCommand' = [readCommand EXCEPT ![c] =
                   IF raises
                   THEN [r EXCEPT !.buffer = buf, !.status = InternalError,
                                  !.pc = "workDone"]
                   ELSE [r EXCEPT !.buffer = buf,
                                  !.data = FillData(r.m_ids, r.index, bufCap),
                                  !.pts = FillPts(r.m_ids, r.index, bufCap),
                                  !.index = FillEnd(r.m_ids, r.index, bufCap),
                                  !.pc = "dataCb"]]
    /\ UNCHANGED <<m_session, sessRefs, sessReader, cacheVars, createData,
                   delivered, unacked, bufCap, crashed, otherVars>>

\* The control thread hands the filled buffer to the data callback.
deliverData(c) ==
    /\ ~crashed
    /\ readCommand[c].pc = "dataCb"
    /\ LET r == readCommand[c]
       IN  /\ delivered' = [delivered EXCEPT ![c] = Append(@,
                  DataCb(r.status, r.pts, r.data, eof(r.index, r.m_ids),
                         m_session[r.session]))]
           /\ unacked' = unacked \cup {r.buffer}
    /\ readCommand' = [readCommand EXCEPT ![c].pc = "awaitAck"]
    /\ UNCHANGED <<m_session, sessRefs, sessReader, cacheVars, createData,
                   bufferPool, bufCap, crashed, otherVars>>

\* The consumer has finished with the buffer it was given.
ack(c) ==
    /\ ~crashed
    /\ readCommand[c].pc = "awaitAck"
    /\ unacked' = unacked \ {readCommand[c].buffer}
    /\ readCommand' = [readCommand EXCEPT ![c].pc = "acked"]
    /\ UNCHANGED <<m_session, sessRefs, sessReader, cacheVars, createData,
                   delivered, bufferPool, bufCap, crashed, otherVars>>

\* The worker returns the buffer to the pool and goes on, or is done.
release(c) ==
    /\ ~crashed
    /\ readCommand[c].pc = ReleaseAt
    /\ LET r == readCommand[c]
       IN  /\ bufferPool' = bufferPool \cup {r.buffer}
           /\ readCommand' = [readCommand EXCEPT ![c] =
                  [r EXCEPT !.buffer = 0, !.data = <<>>, !.pts = <<>>,
                            !.pc = IF eof(r.index, r.m_ids) THEN "workDone"
                                   ELSE "acquire"]]
    /\ UNCHANGED <<m_session, sessRefs, sessReader, cacheVars, createData,
                   delivered, unacked, bufCap, crashed, otherVars>>

\* delete readCommand: the use count the command's Session is left with.
DeleteLeaves_leak(refs) == refs

DeleteLeaves(refs) == refs - 1

\* The after-work callback of read on the control thread:
\* readCommand->terminate(), then delete readCommand.  The command gives
\* back a buffer it still holds and its reference to the Session.
readAfterWork(c) ==
    /\ ~crashed
    /\ readCommand[c].pc = "workDone"
    /\ LET r == readCommand[c]
       IN  /\ bufferPool' = IF r.buffer = 0 THEN bufferPool
                            ELSE bufferPool \cup {r.buffer}
           /\ readCommand' = [readCommand EXCEPT ![c] =
                  [r EXCEPT !.buffer = 0, !.data = <<>>, !.pts = <<>>,
                            !.pc = "terminated"]]
           /\ DropSession(r.session, DeleteLeaves(sessRefs[r.session]))
    /\ UNCHANGED <<m_session, builds, createData, delivered, unacked, bufCap,
                   crashed, otherVars>>

\* ----------------------------------------------------------------- info
\* Session::info of a live Session: the metadata of its reader, or the
\* Unbound failure.
SessionInfo(b) == IF Bound(b) THEN "metadata" ELSE "Unbound"

\* Bindings::info: obj->m_session->info(), synchronously.  After destroy
\* m_session is null and the call dereferences it: the process dies, or
\* the call returns whatever it found there.
info(b) ==
    /\ ~crashed
    /\ infoCalls < MaxInfos
    /\ infoCalls' = infoCalls + 1
    /\ IF m_session[b]
       THEN /\ infoResult' = [session |-> b, out |-> SessionInfo(b)]
            /\ UNCHANGED crashed
       ELSE \/ /\ crashed' = TRUE
               /\ infoResult' = [session |-> b, out |-> "none"]
            \/ /\ \E o \in {"metadata", "Unbound"} :
                     infoResult' = [session |-> b, out |-> o]
               /\ UNCHANGED crashed
    /\ UNCHANGED <<m_session, sessRefs, sessReader, cacheVars, createData,
                   readVars, globalVars, hierarchyVars>>

\* --------------------------------------------------------------- global
GlobalArgc == 3

AlreadyInitialized_never(sf) == FALSE

AlreadyInitialized(sf) == sf

\* Bindings::global(paths, cacheSize, arbiter): the file-level state is
\* assigned in the order of the code, stageFactory last; parsing the
\* arbiter string may raise in between.
global(argc, cfg, arbiterOk) ==
    /\ ~crashed
    /\ globalCalls < MaxGlobals
    /\ globalCalls' = globalCalls + 1
    /\ IF argc # GlobalArgc
       THEN /\ thrown' = "Wrong number of arguments to global"
            /\ UNCHANGED <<stageFactory, paths, cacheObj, outerScope, cache,
                           lru>>
       ELSE IF AlreadyInitialized(stageFactory)
       THEN /\ thrown' = "Multiple global initializations attempted"
            /\ UNCHANGED <<stageFactory, paths, cacheObj, outerScope, cache,
                           lru>>
       ELSE /\ paths' = cfg
            /\ cacheObj' = cacheObj + 1
            /\ cache' = [n \in Names |->
                  [state |-> "absent", gen |-> 0, refs |-> 0]]
            /\ lru' = <<>>
            /\ IF arbiterOk
               THEN /\ outerScope' = cfg
                    /\ stageFactory' = TRUE
                    /\ thrown' = ""
               ELSE /\ thrown' = "parse"
                    /\ UNCHANGED <<outerScope, stageFactory>>
    /\ UNCHANGED <<m_session, sessRefs, sessReader, builds, evictions,
                   createData, readVars, crashed, infoVars, hierarchyVars>>

\* ------------------------------------------------------------ hierarchy
\* What HierarchyCommand::run comes to: an empty summary for an empty
\* region, a summary, a status it sets itself for a query it cannot use,
\* or an exception.
RunOutcomes == {"empty", "summary", "invalid", "raises"}

RunStatus(o) ==
    IF o = "raises" THEN InternalError
    ELSE IF o = "invalid" THEN BadRequest
    ELSE 0

RunResult(o) == IF o = "summary" THEN "summary" ELSE ""

\* Bindings::hierarchy on the control thread: a query that is not an
\* object is answered at once; otherwise HierarchyCommand::create, and the
\* work is queued unless it returned null.
hierarchy(b, h, queryOk, made) ==
    /\ ~crashed
    /\ hierarchyCommand[h].pc = "none"
    /\ \A j \in Hiers : j < h => hierarchyCommand[j].pc # "none"
    /\ IF ~queryOk
       THEN /\ hierarchyCommand' = [hierarchyCommand EXCEPT ![h] =
                    [NoHierarchy EXCEPT !.pc = "rejected", !.session = b,
                                        !.status = BadRequest, !.cbs = 1,
                                        !.err = BadRequest]]
            /\ UNCHANGED sessRefs
       ELSE IF ~made
       THEN /\ hierarchyCommand' = [hierarchyCommand EXCEPT ![h] =
                    [NoHierarchy EXCEPT !.pc = "createFailed", !.session = b]]
            /\ UNCHANGED sessRefs
       ELSE /\ hierarchyCommand' = [hierarchyCommand EXCEPT ![h] =
                    [NoHierarchy EXCEPT !.pc = "queued", !.session = b,
                                        !.null = ~m_session[b]]]
            /\ sessRefs' = [sessRefs EXCEPT
                    ![b] = IF m_session[b] THEN @ + 1 ELSE @]
    /\ UNCHANGED <<m_session, sessReader, cacheVars, createData, readVars,
                   crashed, infoVars, globalVars>>

\* The work callback of hierarchy: command->run() inside try / catch (...).
hierarchyWork(h, o) ==
    /\ ~crashed
    /\ hierarchyCommand[h].pc = "queued"
    /\ ThreadFree
    /\ IF hierarchyCommand[h].null
       THEN /\ crashed' = TRUE
            /\ UNCHANGED hierarchyCommand
       ELSE /\ sessReader[hierarchyCommand[h].session] = NoReader =>
                  o = "raises"
            /\ hierarchyCommand' = [hierarchyCommand EXCEPT
                    ![h].pc = "workDone", ![h].status = RunStatus(o),
                    ![h].result = RunResult(o)]
            /\ UNCHANGED crashed
    /\ UNCHANGED <<m_session, sessRefs, sessReader, cacheVars, createData,
                   readVars, infoVars, globalVars>>

\* The after-work callback of hierarchy: cb(err, result) with a null err
\* for an ok status, then delete command.
hierarchyAfterWork(h) ==
    /\ ~crashed
    /\ hierarchyCommand[h].pc = "workDone"
    /\ LET c == hierarchyCommand[h]
       IN  /\ hierarchyCommand' = [hierarchyCommand EXCEPT ![h] =
                  [c EXCEPT !.pc = "done", !.cbs = @ + 1,
                            !.err = c.status, !.arg = c.result]]
           /\ DropSession(c.session, sessRefs[c.session] - 1)
    /\ UNCHANGED <<m_session, builds, createData, readVars, crashed, infoVars,
                   globalVars>>

\* ------------------------------------------------------- specifications
\* Sessions being created and destroyed over the shared cache.
Next ==
    \/ \E b \in Bindings, k \in Creates, n \in Names \cup {NotAString} :
          create(b, k, n)
    \/ \E k \in Creates : createWork(k)
    \/ \E k \in Creates : createBuilt(k)
    \/ \E k \in Creates : createWake(k)
    \/ \E k \in Creates : createAfterWork(k)
    \/ \E b \in Bindings : destroy(b)

Spec == Init /\ [][Next]_vars

\* Read commands on sessions whose create calls have completed: binding 1
\* is bound to "scan1"; every other binding asked for "scan1", for "scan2"
\* or for a dataset that could not be located.
CreateDone(b, n, st) ==
    [pc |-> "done", session |-> b, null |-> FALSE, name |-> n, status |-> st,
     why |-> "", cbs |-> 1]

InitRead ==
    /\ InitOther
    /\ m_session = [b \in Bindings |-> TRUE]
    /\ sessRefs = [b \in Bindings |-> 1]
    /\ \E asked \in [Bindings -> Names] :
          /\ asked[1] = "scan1"
          /\ sessReader = [b \in Bindings |->
                IF asked[b] \in Locatable
                THEN [name |-> asked[b], gen |-> 1]
                ELSE NoReader]
          /\ cache = [n \in Names |->
                IF \E b \in Bindings : asked[b] = n /\ n \in Locatable
                THEN [state |-> "open", gen |-> 1,
                      refs |-> Cardinality({b \in Bindings : asked[b] = n})]
                ELSE [state |-> "absent", gen |-> 0, refs |-> 0]]
          /\ builds = [n \in Names |->
                IF \E b \in Bindings : asked[b] = n /\ n \in Locatable
                THEN 1 ELSE 0]
          /\ createData = [k \in Creates |->
                IF k \notin Bindings THEN NoCreate
                ELSE IF asked[k] \in Locatable THEN CreateDone(k, asked[k], 0)
                ELSE CreateDone(k, asked[k], NotFound)]
    /\ lru = <<>>
    /\ evictions = [n \in Names |-> 0]
    /\ readCommand = [c \in Cmds |-> NoCommand]
    /\ delivered = [c \in Cmds |-> <<>>]
    /\ bufferPool = BufferPoolInit
    /\ unacked = {}
    /\ bufCap \in 1..MaxBufCap
    /\ crashed = FALSE

NextRead ==
    \/ \E b \in Bindings : destroy(b)
    \/ \E b \in Bindings, c \in Cmds, argsOk \in BOOLEAN, made \in BOOLEAN :
          read(b, c, argsOk, made)
    \/ \E c \in Cmds, o \in InitOutcomes, ids \in ResultSets : readWork(c, o, ids)
    \/ \E c \in Cmds : deliverInit(c)
    \/ \E c \in Cmds : readStart(c)
    \/ \E c \in Cmds, raises \in BOOLEAN : readChunk(c, raises)
    \/ \E c \in Cmds : deliverData(c)
    \/ \E c \in Cmds : ack(c)
    \/ \E c \in Cmds : release(c)
    \/ \E c \in Cmds : readAfterWork(c)

SpecRead == InitRead /\ [][NextRead]_vars

\* create, destroy and info calls on the Sessions.
NextInfo ==
    \/ Next
    \/ \E b \in Bindings : info(b)

SpecInfo == Init /\ [][NextInfo]_vars

\* The process from its start: global calls, and Sessions used once one of
\* them has run to its end.
InitGlobal ==
    /\ InitInfo
    /\ InitHierarchy
    /\ stageFactory = FALSE
    /\ paths = 0
    /\ cacheObj = 0
    /\ outerScope = 0
    /\ thrown = ""
    /\ globalCalls = 0
    /\ InitSessions

NextGlobal ==
    \/ \E argc \in {GlobalArgc - 1, GlobalArgc}, cfg \in Configs,
          arbiterOk \in BOOLEAN : global(argc, cfg, arbiterOk)
    \/ stageFactory /\ Next

SpecGlobal == InitGlobal /\ [][NextGlobal]_vars

\* hierarchy calls on Sessions whose create calls have completed.
NextHierarchy ==
    \/ \E b \in Bindings : destroy(b)
    \/ \E b \in Bindings, h \in Hiers, queryOk \in BOOLEAN, made \in BOOLEAN :
          hierarchy(b, h, queryOk, made)
    \/ \E h \in Hiers, o \in RunOutcomes : hierarchyWork(h, o)
    \/ \E h \in Hiers : hierarchyAfterWork(h)

SpecHierarchy == InitRead /\ [][NextHierarchy]_vars

\* ----------------------------------------------------- reading the logs
RECURSIVE Flatten(_)
Flatten(ss) == IF ss = <<>> THEN <<>> ELSE Head(ss) \o Flatten(Tail(ss))

IsData(e) == e.t = "data"
IsInit(e) == e.t = "init"
DataCbs(c) == SelectSeq(delivered[c], IsData)
InitCbs(c) == SelectSeq(delivered[c], IsInit)
BytesReceived(c) == Flatten([i \in 1..Len(DataCbs(c)) |-> DataCbs(c)[i].bytes])
PointsReceived(c) == Flatten([i \in 1..Len(DataCbs(c)) |-> DataCbs(c)[i].pts])

\* decode_point over the resolved ids, in order
Decoded(ids) == Flatten([i \in 1..Len(ids) |-> getPointData(ids[i])])

Terminal == {"rejected", "createFailed", "terminated"}
InFlight(c) == readCommand[c].pc \notin (Terminal \cup {"none"})
Holding == {c \in Cmds : readCommand[c].buffer # 0}

\* =============================================================== claims

\* C1: Single-flight construction.  Whatever the interleaving of the
\* create calls of the sessions, a name has at most one reader that was
\* built and not evicted since (it is built once while it stays cached),
\* and every session a create has bound holds that one reader.
SingleFlight ==
    /\ \A n \in Names :
          builds[n] = evictions[n] + (IF cache[n].state = "absent" THEN 0 ELSE 1)
    /\ \A b \in Bindings :
          sessReader[b] # NoReader =>
              /\ cache[sessReader[b].name].state = "open"
              /\ cache[sessReader[b].name].gen = sessReader[b].gen
              /\ sessReader[b].gen = builds[sessReader[b].name]

\* Two creates of one name were in flight together (one built, one waited),
\* both sessions are bound, and the reader was built once.
SingleFlightWitness ==
    \E n \in Names :
        /\ builds[n] = 1
        /\ cache[n].refs >= 2
        /\ \E b1, b2 \in Bindings :
              /\ b1 # b2
              /\ sessReader[b1] = [name |-> n, gen |-> 1]
              /\ sessReader[b2] = [name |-> n, gen |-> 1]

\* C2: The number of buffers of the shared pool that are checked out never
\* exceeds the pool size.
PoolBound ==
    /\ Cardinality({readCommand[c].buffer : c \in Holding}) <= numBuffers
    /\ Cardinality(Holding) <= numBuffers

\* The pool is exhausted: every buffer is checked out and a second read
\* command waits for one.
PoolBoundWitness ==
    /\ bufferPool = {}
    /\ Cardinality(Holding) = numBuffers
    /\ \E c \in Cmds : readCommand[c].pc = "acquire"

\* C3: A pooled buffer has at most one owner, an owned buffer is not in the
\* free set, and a buffer whose contents a consumer has not acknowledged is
\* neither free, nor owned by another command, nor being refilled.
BufferOwnership ==
    /\ \A c1, c2 \in Holding :
          readCommand[c1].buffer = readCommand[c2].buffer => c1 = c2
    /\ \A c \in Holding : readCommand[c].buffer \notin bufferPool
    /\ \A buf \in unacked :
          /\ buf \notin bufferPool
          /\ \E c \in Holding :
                /\ readCommand[c].buffer = buf
                /\ readCommand[c].pc = "awaitAck"

\* A delivered buffer awaits its acknowledgment while another read command
\* waits for a buffer.
BufferOwnershipWitness ==
    /\ unacked # {}
    /\ \E c \in Cmds : readCommand[c].pc = "acquire"

\* The commands created from binding b, and whether read() of c uses or
\* has used the reader of its session.
CommandsOf(b) == {c \in Cmds : readCommand[c].session = b /\ readCommand[c].pc # "none"}
UsesReader(c) ==
    /\ readCommand[c].pc \in {"initCb", "initDone", "acquire", "dataCb",
                              "awaitAck", "acked"}
    /\ readCommand[c].status = 0

\* C4: Destroying a Session while a read command made from it is in flight
\* is safe.  The command keeps the Session, and with it the reader, alive
\* while it runs; once the binding is destroyed and its commands are over,
\* no reference to the Session or from it to the reader is left; the
\* count of a reader is the number of Sessions bound to it; and nothing is
\* delivered for a command after it has terminated.
DestroySafeState ==
    /\ \A c \in Cmds :
          (InFlight(c) /\ ~readCommand[c].null) =>
              sessRefs[readCommand[c].session] >= 1
    /\ \A c \in Cmds :
          UsesReader(c) =>
              LET r == sessReader[readCommand[c].session]
              IN  /\ r # NoReader
                  /\ cache[r.name].state = "open"
                  /\ cache[r.name].refs >= 1
    /\ \A b \in Bindings :
          (~m_session[b] /\ \A c \in CommandsOf(b) : ~InFlight(c)) =>
              /\ sessRefs[b] = 0
              /\ sessReader[b] = NoReader
    /\ \A n \in Names :
          cache[n].refs = Cardinality({b \in Bindings : sessReader[b].name = n})

DestroySafe ==
    /\ []DestroySafeState
    /\ [][\A c \in Cmds :
            readCommand[c].pc = "terminated" =>
                /\ delivered'[c] = delivered[c]
                /\ readCommand'[c] = readCommand[c]]_vars

\* The binding was destroyed while its command is in mid-stream: a chunk
\* awaits its acknowledgment, more points are to come, and the command
\* holds the only reference to the Session.
DestroySafeWitness ==
    \E c \in Cmds :
        /\ readCommand[c].pc = "awaitAck"
        /\ ~m_session[readCommand[c].session]
        /\ sessRefs[readCommand[c].session] = 1
        /\ readCommand[c].index < Len(readCommand[c].m_ids)

\* C5: The data callbacks of a read command carry the resolved ids in
\* their order, each chunk continuing where the previous one stopped; the
\* init callback comes before every data callback; and no data callback
\* follows the one that carries the done flag.
IsPrefix(p, q) == Len(p) <= Len(q) /\ p = SubSeq(q, 1, Len(p))

CallbackOrder ==
    \A c \in Cmds :
        LET log == delivered[c]
        IN  /\ IsPrefix(PointsReceived(c), readCommand[c].m_ids)
            /\ \A i \in 1..Len(log) :
                  IsData(log[i]) => (i > 1 /\ IsInit(log[1]))
            /\ \A i, j \in 1..Len(log) :
                  (i < j /\ IsData(log[i]) /\ log[i].done) => ~IsData(log[j])

\* A command delivered several chunks, the last one with the done flag.
CallbackOrderWitness ==
    \E c \in Cmds :
        /\ Len(DataCbs(c)) >= 2
        /\ DataCbs(c)[Len(DataCbs(c))].done
        /\ readCommand[c].m_ids # Asc(Len(readCommand[c].m_ids))

\* C6: Streaming is lossless and order-preserving.  When a read command
\* has terminated without error, the bytes of its data callbacks, put end
\* to end, are the decoded points of the resolved ids in order.
Lossless ==
    \A c \in Cmds :
        (readCommand[c].pc = "terminated" /\ readCommand[c].status = 0) =>
            BytesReceived(c) = Decoded(readCommand[c].m_ids)

\* A result that spans several buffers and ends on a buffer boundary.
LosslessWitness ==
    \E c \in Cmds :
        /\ readCommand[c].pc = "terminated"
        /\ readCommand[c].status = 0
        /\ Len(DataCbs(c)) >= 2
        /\ Len(readCommand[c].m_ids) = Len(DataCbs(c)) * bufCap

\* C7: A read whose resolved id sequence is empty gets the init callback
\* with status ok and total 0, gets no data callback, never holds a
\* buffer, and terminates with status ok.
InitOk(c) ==
    /\ readCommand[c].pc \in {"initDone", "acquire", "dataCb", "awaitAck",
                              "acked", "workDone", "terminated"}
    /\ delivered[c] # <<>>
    /\ delivered[c][1].status = 0

EmptyResult ==
    \A c \in Cmds :
        (InitOk(c) /\ readCommand[c].m_ids = <<>>) =>
            /\ delivered[c] = <<InitCb(0, 0)>>
            /\ readCommand[c].buffer = 0
            /\ readCommand[c].status = 0
            /\ readCommand[c].pc \in {"initDone", "workDone", "terminated"}

\* An empty read has run to its end.
EmptyResultWitness ==
    \E c \in Cmds :
        /\ InitOk(c)
        /\ readCommand[c].m_ids = <<>>
        /\ readCommand[c].entered
        /\ readCommand[c].pc = "terminated"

\* C8: When init fails, read() is not entered, no buffer is acquired, no
\* data callback is delivered, and the init callback carries the failure.
InitFailed(c) ==
    /\ readCommand[c].pc \in {"initCb", "initDone", "workDone", "terminated",
                              "acquire", "dataCb", "awaitAck", "acked"}
    /\ IF readCommand[c].pc = "initCb"
       THEN readCommand[c].status # 0
       ELSE delivered[c] # <<>> /\ delivered[c][1].status # 0

InitFailureStops ==
    \A c \in Cmds :
        InitFailed(c) =>
            /\ ~readCommand[c].entered
            /\ readCommand[c].buffer = 0
            /\ DataCbs(c) = <<>>
            /\ readCommand[c].pc \in {"initCb", "initDone", "workDone", "terminated"}
            /\ readCommand[c].pc # "initCb" =>
                  delivered[c] = <<InitCb(readCommand[c].status, 0)>>

\* A command whose init failed has terminated.
InitFailureStopsWitness ==
    \E c \in Cmds :
        /\ InitFailed(c)
        /\ readCommand[c].pc = "terminated"
        /\ readCommand[c].status \in {BadRequest, InternalError}

\* C9: Every read invocation gets its init callback exactly once, on each
\* path: rejected arguments, ReadCommand::create throwing, failed init,
\* success.
InitCallbackOnce ==
    \A c \in Cmds :
        /\ Len(InitCbs(c)) <= 1
        /\ readCommand[c].pc \in Terminal => Len(InitCbs(c)) = 1

\* C10: A failure of read() after a successful init callback is reported:
\* a terminated command whose status is 500 has delivered a callback that
\* carries the 500 status.
StreamFailureReported ==
    \A c \in Cmds :
        (/\ readCommand[c].pc = "terminated"
         /\ InitOk(c)
         /\ readCommand[c].status = InternalError) =>
            \E i \in 1..Len(delivered[c]) :
                delivered[c][i].status = InternalError

\* C11: A read command reaches Terminated once, from the end of its work
\* and by no other way, and stays there.  At that step it gives up its
\* reference to the Session (and through it to the reader) and the buffer
\* it still holds; afterwards it holds neither, every reference to a
\* Session is held by the binding or by an invocation in flight, and every
\* buffer is either free or held by one command.
CreateInFlight == {"queued", "building", "waiting", "workDone"}

RefHolders(b) ==
    (IF m_session[b] THEN 1 ELSE 0)
    + Cardinality({c \in Cmds : /\ InFlight(c)
                                /\ readCommand[c].session = b
                                /\ ~readCommand[c].null})
    + Cardinality({k \in Creates : /\ createData[k].pc \in CreateInFlight
                                   /\ createData[k].session = b
                                   /\ ~createData[k].null})

HeldBuffers == {readCommand[c].buffer : c \in Holding}

ReleasedOnceState ==
    /\ \A c \in Cmds :
          readCommand[c].pc = "terminated" => readCommand[c].buffer = 0
    /\ \A b \in Bindings : sessRefs[b] = RefHolders(b)
    /\ bufferPool \cap HeldBuffers = {}
    /\ bufferPool \cup HeldBuffers = BufferPoolInit

ReleasedOnceStep ==
    \A c \in Cmds :
        /\ readCommand[c].pc = "terminated" => readCommand'[c] = readCommand[c]
        /\ (readCommand[c].pc # "terminated" /\ readCommand'[c].pc = "terminated") =>
              /\ readCommand[c].pc = "workDone"
              /\ sessRefs'[readCommand[c].session] =
                    sessRefs[readCommand[c].session] - 1
              /\ bufferPool' = bufferPool \cup
                    (IF readCommand[c].buffer = 0 THEN {}
                     ELSE {readCommand[c].buffer})

ReleasedOnce == []ReleasedOnceState /\ [][ReleasedOnceStep]_vars

\* A command whose read() failed while it held a buffer has terminated,
\* and the whole pool is free again.
ReleasedOnceWitness ==
    \E c \in Cmds :
        /\ readCommand[c].pc = "terminated"
        /\ InitOk(c)
        /\ readCommand[c].status = InternalError
        /\ bufferPool = BufferPoolInit
        /\ sessRefs[readCommand[c].session] = RefHolders(readCommand[c].session)

\* C12: When the owning Session is destroyed in mid-stream (after a chunk
\* has already been delivered), the command delivers at most the chunk it
\* is filling, marked as the end of the stream, and none after it.
TerminationStopsStream ==
    \A c \in Cmds :
        \A h, i \in 1..Len(DataCbs(c)) :
            (h < i /\ DataCbs(c)[h].live /\ ~DataCbs(c)[i].live) =>
                /\ DataCbs(c)[i].done
                /\ i = Len(DataCbs(c))

\* C13: A reader is evicted only when nothing refers to it and the cache
\* holds more readers than its capacity.  The reader of a bound Session,
\* and so of every command in flight that keeps its Session, stays open
\* in the cache; the readers queued for eviction are unreferenced; and the
\* step that evicts reader n leaves no Session and no create bound to n and
\* does not take the cache below its capacity.
EvictionState ==
    /\ \A b \in Bindings :
          sessReader[b] # NoReader =>
              /\ cache[sessReader[b].name].state = "open"
              /\ cache[sessReader[b].name].refs >= 1
    /\ \A c \in Cmds :
          (InFlight(c) /\ ~readCommand[c].null /\ InitOk(c)) =>
              sessReader[readCommand[c].session] # NoReader
    /\ \A i \in 1..Len(lru) :
          /\ cache[lru[i]].state = "open"
          /\ cache[lru[i]].refs = 0

EvictionStep ==
    \A n \in Names :
        evictions'[n] > evictions[n] =>
            /\ cache[n].state # "absent"
            /\ cache'[n].state = "absent"
            /\ \A b \in Bindings : sessReader'[b].name # n
            /\ \A k \in Creates :
                  createData'[k].pc \in {"building", "waiting"} =>
                      createData'[k].name # n
            /\ Cardinality(Cached(cache')) >= CacheCapacity

EvictionOnlyUnreferenced == []EvictionState /\ [][EvictionStep]_vars

\* A reader was evicted while another one, whose binding was destroyed,
\* stays open for the command that still streams from it.
EvictionWitness ==
    /\ \E n \in Names : evictions[n] > 0
    /\ \E c \in Cmds :
          /\ UsesReader(c)
          /\ readCommand[c].pc = "awaitAck"
          /\ ~m_session[readCommand[c].session]
          /\ cache[sessReader[readCommand[c].session].name].refs = 1

\* ------------------------------------------------- scheduled execution
\* Read commands started while the dataset of binding 2 is still being
\* built on a worker thread; every other binding is bound to "scan1".
Building(b, n) ==
    [pc |-> "building", session |-> b, null |-> FALSE, name |-> n,
     status |-> 0, why |-> "", cbs |-> 0]

InitLive ==
    /\ InitOther
    /\ m_session = [b \in Bindings |-> TRUE]
    /\ sessRefs = [b \in Bindings |-> IF b = 2 THEN 2 ELSE 1]
    /\ sessReader = [b \in Bindings |->
          IF b = 2 THEN NoReader ELSE [name |-> "scan1", gen |-> 1]]
    /\ cache = [n \in Names |->
          IF n = "scan1"
          THEN [state |-> "open", gen |-> 1, refs |-> NumBindings - 1]
          ELSE IF n = "scan2"
          THEN [state |-> "building", gen |-> 0, refs |-> 1]
          ELSE [state |-> "absent", gen |-> 0, refs |-> 0]]
    /\ builds = [n \in Names |-> IF n \in Locatable THEN 1 ELSE 0]
    /\ createData = [k \in Creates |->
          IF k = 2 THEN Building(2, "scan2")
          ELSE IF k \in Bindings THEN CreateDone(k, "scan1", 0)
          ELSE NoCreate]
    /\ lru = <<>>
    /\ evictions = [n \in Names |-> 0]
    /\ readCommand = [c \in Cmds |-> NoCommand]
    /\ delivered = [c \in Cmds |-> <<>>]
    /\ bufferPool = BufferPoolInit
    /\ unacked = {}
    /\ bufCap \in 1..MaxBufCap
    /\ crashed = FALSE

NextLive ==
    \/ \E k \in Creates : createBuilt(k)
    \/ \E k \in Creates : createAfterWork(k)
    \/ \E b \in Bindings, c \in Cmds, argsOk \in BOOLEAN, made \in BOOLEAN :
          read(b, c, argsOk, made)
    \/ \E c \in Cmds, o \in InitOutcomes, ids \in ResultSets : readWork(c, o, ids)
    \/ \E c \in Cmds : deliverInit(c)
    \/ \E c \in Cmds : readStart(c)
    \/ \E c \in Cmds, raises \in BOOLEAN : readChunk(c, raises)
    \/ \E c \in Cmds : deliverData(c)
    \/ \E c \in Cmds : ack(c)
    \/ \E c \in Cmds : release(c)
    \/ \E c \in Cmds : readAfterWork(c)

\* The thread pool runs every queued work callback and lets every worker
\* that can go on do so, the event loop runs every posted callback and
\* after-work callback, and the consumer acknowledges every buffer it was
\* given.  Nothing obliges a client to start a read.
Scheduling ==
    /\ \A k \in Creates : WF_vars(createBuilt(k))
    /\ \A k \in Creates : WF_vars(createAfterWork(k))
    /\ \A c \in Cmds :
          WF_vars(\E o \in InitOutcomes, ids \in ResultSets : readWork(c, o, ids))
    /\ \A c \in Cmds : WF_vars(deliverInit(c))
    /\ \A c \in Cmds : WF_vars(readStart(c))
    /\ \A c \in Cmds : WF_vars(\E raises \in BOOLEAN : readChunk(c, raises))
    /\ \A c \in Cmds : WF_vars(deliverData(c))
    /\ \A c \in Cmds : WF_vars(ack(c))
    /\ \A c \in Cmds : WF_vars(release(c))
    /\ \A c \in Cmds : WF_vars(readAfterWork(c))

SpecLive == InitLive /\ [][NextLive]_vars /\ Scheduling

\* C14: An exhausted buffer pool is backpressure.  A worker that finds no
\* free buffer stays where it is with its status and its request intact;
\* when the consumer acknowledges every buffer, every worker waiting for a
\* buffer gets one and every read command in flight terminates, with more
\* work queued than there are buffers and free threads and with a dataset
\* build in progress.
WaitsWithoutFailing ==
    \A c \in Cmds :
        (readCommand[c].pc = "acquire" /\ bufferPool = {}) =>
            readCommand'[c] = readCommand[c]

BindsOnce ==
    \A b \in Bindings :
        Cardinality({k \in Creates : /\ createData[k].pc \in {"workDone", "done"}
                                     /\ createData[k].session = b
                                     /\ createData[k].name # NoName
                                     /\ createData[k].status = 0}) <= 1

CountedOnce ==
    \A n \in Names :
        cache[n].refs =
            Cardinality({b \in Bindings : sessReader[b].name = n})
            + Cardinality({k \in Creates :
                  /\ createData[k].pc \in {"building", "waiting"}
                  /\ createData[k].name = n})

BoundCreateFails ==
    \A k \in Creates :
        LET b == createData[k].session
        IN  (/\ createData[k].pc \in {"queued", "building", "waiting"}
             /\ createData'[k].pc = "workDone"
             /\ Bound(b)) =>
                /\ createData'[k].why = "AlreadyBound"
                /\ createData'[k].status # 0
                /\ sessReader'[b] = sessReader[b]
                /\ cache'[sessReader[b].name].state = "open"
                /\ cache'[sessReader[b].name].gen = sessReader[b].gen

AlreadyBound == [](BindsOnce /\ CountedOnce) /\ [][BoundCreateFails]_vars

\* Two create calls for one dataset were made on one Session: one bound
\* it, the other failed with AlreadyBound, and the reader was built once
\* and is counted once.
AlreadyBoundWitness ==
    \E j, k \in Creates :
        /\ j # k
        /\ createData[j].session = createData[k].session
        /\ createData[j].pc = "done" /\ createData[j].status = 0
        /\ createData[k].pc = "done" /\ createData[k].why = "AlreadyBound"
        /\ createData[k].name = createData[j].name
        /\ sessReader[createData[j].session].name = createData[j].name
        /\ cache[createData[j].name].refs = 1
        /\ builds[createData[j].name] = 1

\* The info invocation made by this step, if it makes one.
InfoCalled(b) ==
    /\ infoCalls' = infoCalls + 1
    /\ infoResult'.session = b

\* C16: A create whose dataset cannot be located or opened ends with the
\* 404 status (unless its Session was bound already, see C15); its step
\* leaves the Session unbound and the cache as it was, no entry and no
\* reference exists for the name, and an info call on that Session, while
\* it stays unbound, reports Unbound.
NotFoundState ==
    /\ \A k \in Creates :
          (/\ createData[k].pc \in {"workDone", "done"}
           /\ createData[k].name \notin (Locatable \cup {NoName})) =>
              \/ createData[k].status = NotFound
              \/ createData[k].why = "AlreadyBound"
    /\ \A n \in Names \ Locatable :
          /\ cache[n] = [state |-> "absent", gen |-> 0, refs |-> 0]
          /\ builds[n] = 0
          /\ \A b \in Bindings : sessReader[b].name # n

NotFoundStep ==
    \A k \in Creates :
        (createData[k].pc = "queued" /\ createData'[k].pc = "workDone"
            /\ createData'[k].status = NotFound) =>
                /\ ~Bound(createData[k].session)
                /\ UNCHANGED <<sessReader, cache, lru, builds, evictions>>

InfoAfterNotFound ==
    \A b \in Bindings :
        (/\ InfoCalled(b)
         /\ m_session[b]
         /\ ~Bound(b)
         /\ \E k \in Creates : /\ createData[k].session = b
                               /\ createData[k].pc = "done"
                               /\ createData[k].status = NotFound) =>
            /\ infoResult'.out = "Unbound"
            /\ UNCHANGED crashed

NotFoundLeavesUnbound ==
    []NotFoundState /\ [][NotFoundStep /\ InfoAfterNotFound]_vars

\* info reported Unbound on a live Session whose only create ended with
\* 404, and nothing is cached.
NotFoundWitness ==
    /\ infoResult.out = "Unbound"
    /\ m_session[infoResult.session]
    /\ \E k \in Creates :
          /\ createData[k].session = infoResult.session
          /\ createData[k].pc = "done"
          /\ createData[k].status = NotFound
          /\ \A j \in Creates \ {k} : createData[j].pc = "none"
    /\ Cached(cache) = {}

\* C17: An info call on a Session without a successful create (never
\* created, create in flight, create failed, or destroyed) fails with
\* Unbound and neither returns metadata nor brings the process down.
InfoUnbound ==
    \A b \in Bindings :
        (InfoCalled(b) /\ ~(m_session[b] /\ Bound(b))) =>
            /\ infoResult'.out = "Unbound"
            /\ UNCHANGED crashed

InfoUnboundFails == [][InfoUnbound]_vars

\* C18: Once a global call has run to its end, every later global call
\* raises and leaves paths, the cache object with the readers it holds,
\* and the arbiter as they are.
GlobalInitialized ==
    stageFactory => (paths # 0 /\ cacheObj # 0 /\ outerScope # 0)

LaterGlobalRaises ==
    (globalCalls' = globalCalls + 1 /\ stageFactory) =>
        /\ thrown' # ""
        /\ UNCHANGED <<stageFactory, paths, cacheObj, outerScope, cache, lru>>

GlobalOnce ==
    /\ []GlobalInitialized
    /\ [][LaterGlobalRaises]_vars
    /\ [][stageFactory => stageFactory']_vars

\* A global call made after the first one completed was refused while the
\* cache held an open reader.
GlobalOnceWitness ==
    /\ stageFactory
    /\ thrown = "Multiple global initializations attempted"
    /\ \E n \in Names : cache[n].state = "open" /\ cache[n].refs >= 1

\* C19: The status of a read command follows the kind of failure of its
\* init(): 400 for an invalid query or a query of the wrong type, 500 for
\* any other exception.
StatusClasses ==
    \A c \in Cmds :
        /\ readCommand[c].raised \in {"InvalidQuery", "WrongQueryType"} =>
              readCommand[c].status = BadRequest
        /\ readCommand[c].raised \in {"exception", "unknown"} =>
              readCommand[c].status = InternalError

\* C20: Every hierarchy invocation calls its callback exactly once: at
\* once with status 400 when the query is not an object, otherwise once
\* after run() has finished, with a null error exactly when the status is
\* ok and with status 500 when run() raised; an empty region gives an ok
\* status and an empty summary.
HierarchyCallbackOnce ==
    \A h \in Hiers :
        LET c == hierarchyCommand[h]
        IN  /\ c.pc = "rejected" => (c.cbs = 1 /\ c.err = BadRequest)
            /\ c.pc \in {"queued", "workDone"} => c.cbs = 0
            /\ c.pc \in {"createFailed", "done"} => c.cbs = 1
            /\ c.pc = "done" =>
                  /\ (c.err = 0) <=> (c.status = 0)
                  /\ c.arg = c.result

\* C21: Every create invocation calls its callback exactly once and then
\* drops its request state: at once with status 400 when the name is not a
\* string, otherwise from the after-work step, after initialize was
\* attempted.  An invocation whose work is queued or running has not been
\* answered yet and is still going to be (the process is alive); one that
\* is done was answered once.
CreateCallbackOnce ==
    \A k \in Creates :
        LET d == createData[k]
        IN  /\ d.pc = "none" => d.cbs = 0
            /\ d.pc \in CreateInFlight => (d.cbs = 0 /\ ~crashed)
            /\ d.pc = "done" => d.cbs = 1
            /\ (d.pc = "done" /\ d.name = NoName) => d.status = BadRequest

====
